---------------------------- MODULE Spec2Model ----------------------------
(***************************************************************************)
(* Model of the drone georeferencing pipeline (main.py and the modules it  *)
(* calls): metadata cleaning, Kalman smoothing of the trajectory, the      *)
(* per-image georeferencing loop (projection, control points, rectifying)  *)
(* and the analysis report.                                                *)
(*                                                                         *)
(* Number representation (the code computes in IEEE doubles; the model in  *)
(* fixed point, with a division that truncates toward zero so that it is   *)
(* sign-symmetric as floating-point rounding is):                          *)
(*   angles                 milli-degrees (mdeg)                           *)
(*   sin/cos/tan            scaled by 1000                                 *)
(*   latitude / longitude   micro-degrees (udeg)                           *)
(*   altitude               metres                                         *)
(*   ground distances       centimetres                                    *)
(*   time                   milliseconds; Kalman dt in whole seconds       *)
(*   Kalman covariances     units of 1e-7 deg^2                            *)
(***************************************************************************)
EXTENDS Integers, Sequences, FiniteSets, TLC

VARIABLES
    pc,          \* position of main(): clean, smooth, georef, mosaic, report, done, raised
    images,      \* image_dir: filename -> [status, w, h]
    cam_pitch,   \* cam_pitch argument of georeference_images.run (mdeg)
    cam_yaw,     \* cam_yaw argument of georeference_images.run (mdeg)
    metaRaw,     \* meta_raw.csv      (written by smart_merge)
    metaClean,   \* meta_clean.csv    (written by process_metadata)
    metaKalman,  \* meta_kalman.csv   (written by kalman_smoother)
    kfCalls,     \* the predict/update calls made on the KalmanFilter, in order
    gi,          \* number of rows of the sorted table the georeferencing loop has consumed
    visited,     \* filenames the loop has iterated over, in order
    verRows,     \* verification_rows of georeference_images.run
    gcpsOut,     \* filename -> the control points handed to gdal.Translate
    tifs,        \* GeoTIFFs present in the output directory
    verFile,     \* verification_corners.csv
    log,         \* lines printed by the stages
    velTable,    \* Table_3_1_Velocity.csv
    shiftTable,  \* Table_3_2_Shift.csv
    qualTable,   \* Table_3_3_Geometric_Verification.csv
    report       \* run-level figures printed by analyze_geometry: <<>> or one record

vars == <<pc, images, cam_pitch, cam_yaw, metaRaw, metaClean, metaKalman, kfCalls,
          gi, visited, verRows, gcpsOut, tifs, verFile, log, velTable, shiftTable,
          qualTable, report>>

\* A file that does not exist.  No stage writes a table without rows except
\* smart_merge, whose empty meta_raw.csv reads as no table at all.
NoFile == <<>>

-----------------------------------------------------------------------------
(* Bounds of the model *)

MaxRows == 2       \* rows of the metadata table in a pipeline run
MaxSamples == 3    \* rows of the trajectory handed to the smoother alone
MaxDim == 3        \* largest image width / height (pixels) that is projected

-----------------------------------------------------------------------------
(* Fixed-point arithmetic *)

Abs(a) == IF a < 0 THEN -a ELSE a

Sgn(a) == IF a < 0 THEN -1 ELSE IF a > 0 THEN 1 ELSE 0

\* a / b truncated toward zero (b > 0)
Div(a, b) == IF a >= 0 THEN a \div b ELSE -((-a) \div b)

\* a / b rounded to nearest, half away from zero (b > 0)
RDiv(a, b) == IF a >= 0 THEN (2 * a + b) \div (2 * b) ELSE -((2 * (-a) + b) \div (2 * b))

\* <<q, r>> with a * b = q * c + r and 0 <= r < c, without forming a * b
RECURSIVE MulDivRem(_, _, _)
MulDivRem(a, b, c) ==
    IF b = 0 THEN <<0, 0>>
    ELSE LET half == MulDivRem(a, b \div 2, c)
             r2 == 2 * half[2] + (IF b % 2 = 1 THEN a ELSE 0)
         IN  <<2 * half[1] + (r2 \div c), r2 % c>>

\* a * b / c truncated toward zero (b >= 0, c > 0)
MulDiv(a, b, c) == Sgn(a) * MulDivRem(Abs(a), b, c)[1]

\* floor of the square root of n >= 0
RECURSIVE SqrtFrom(_, _)
SqrtFrom(n, g) ==
    LET g2 == (g + n \div g) \div 2
    IN  IF g2 >= g THEN g ELSE SqrtFrom(n, g2)

Sqrt(n) == IF n <= 0 THEN 0 ELSE SqrtFrom(n, n)

\* 1000 * sin(d degrees) for d = 0 .. 90
SinTable == <<
    0, 17, 35, 52, 70, 87, 105, 122, 139, 156, 174, 191, 208, 225, 242, 259, 276,
    292, 309, 326, 342, 358, 375, 391, 407, 423, 438, 454, 469, 485, 500, 515, 530,
    545, 559, 574, 588, 602, 616, 629, 643, 656, 669, 682, 695, 707, 719, 731, 743,
    755, 766, 777, 788, 799, 809, 819, 829, 839, 848, 857, 866, 875, 883, 891, 899,
    906, 914, 921, 927, 934, 940, 946, 951, 956, 961, 966, 970, 974, 978, 982, 985,
    988, 990, 993, 995, 996, 998, 999, 999, 1000, 1000 >>

\* The table interpolated at d degrees and f mdeg
SinInterp(d, f) ==
    IF f = 0 THEN SinTable[d + 1]
    ELSE SinTable[d + 1] + RDiv((SinTable[d + 2] - SinTable[d + 1]) * f, 1000)

\* sin on the first quadrant, 0 <= a <= 90000 mdeg
SinQ(a) == SinInterp(a \div 1000, a % 1000)

\* The first-quadrant angle with the same sine, up to sign, as m in 0 .. 359999
FoldQ(m) ==
    IF m <= 90000 THEN m
    ELSE IF m <= 180000 THEN 180000 - m
    ELSE IF m <= 270000 THEN m - 180000
    ELSE 360000 - m

\* sin of m in 0 .. 359999 mdeg
SinM(m) == (IF m <= 180000 THEN 1 ELSE -1) * SinQ(FoldQ(m))

\* np.sin of an angle in mdeg, scaled by 1000
SinS(a) == SinM(a % 360000)

\* np.cos of an angle in mdeg, scaled by 1000
CosS(a) == SinS(a + 90000)

\* np.tan of an angle in mdeg, scaled by 1000 (cos(a) # 0)
TanS(a) == Div(SinS(a) * 1000, CosS(a))


-----------------------------------------------------------------------------
(* process_metadata.py *)

\* A GPSAltitude cell is [kind, n]: "num" is the number n, "suffixed" the string
\* "<n> m Above Sea Level", "text" a string that is no number
AltitudeParses(cell) == cell.kind \in {"num", "suffixed"}

\* astype(str).str.replace(' m Above Sea Level', '').astype(float) of one cell
AltitudeToFloat(cell) == cell.n

\* process_metadata.run raises: read_csv on an empty file, or astype(float) on a
\* column holding a cell that is no number
CleanRaises(table) ==
    \/ table = <<>>
    \/ \E i \in 1 .. Len(table) : ~AltitudeParses(table[i].GPSAltitude)

\* The table process_metadata.run writes (the coordinates are floats already)
CleanTable(table) ==
    [i \in 1 .. Len(table) |->
        [GPS_Latitude |-> table[i].GPSLatitude,
         GPS_Longitude |-> table[i].GPSLongitude,
         GPS_Altitude |-> AltitudeToFloat(table[i].GPSAltitude)] @@ table[i]]

-----------------------------------------------------------------------------
(* kalman_smoother.py, with filterpy's KalmanFilter.  The covariance P starts as  *)
(* 10 * I and F, Q, H, R are block diagonal in the (lat, lat_vel) and (lon,       *)
(* lon_vel) pairs, so P is carried as its two 2x2 blocks [pp, pv, vv].            *)

KF_P0 == 100000000   \* kf.P *= 10.      (10 deg^2)
KF_R == 100          \* kf.R *= 0.00001  (1e-5 deg^2)
KF_VAR == 10         \* var=1e-6         (1e-6 deg^2)

\* KalmanFilter(dim_x=4, dim_z=2) with kf.x seeded from the first row
KfSeed(row) ==
    [x |-> <<row.GPS_Latitude, 0, row.GPS_Longitude, 0>>,
     P |-> <<[pp |-> KF_P0, pv |-> 0, vv |-> KF_P0], [pp |-> KF_P0, pv |-> 0, vv |-> KF_P0]>>]

\* Q_discrete_white_noise(dim=2, dt=dt, var=1e-6): one 2x2 block
QBlock(dt) ==
    [pp |-> Div(dt * dt * dt * dt * KF_VAR, 4),
     pv |-> Div(dt * dt * dt * KF_VAR, 2),
     vv |-> dt * dt * KF_VAR]

\* F P F' + Q on one block
PredictBlock(b, dt) ==
    LET q == QBlock(dt)
    IN  [pp |-> b.pp + 2 * dt * b.pv + dt * dt * b.vv + q.pp,
         pv |-> b.pv + dt * b.vv + q.pv,
         vv |-> b.vv + q.vv]

\* kf.predict() with the F and Q built for dt
KfPredict(kf, dt) ==
    [x |-> <<kf.x[1] + dt * kf.x[2], kf.x[2], kf.x[3] + dt * kf.x[4], kf.x[4]>>,
     P |-> <<PredictBlock(kf.P[1], dt), PredictBlock(kf.P[2], dt)>>]

\* (I - K H) P on one block, with S = H P H' + R
UpdateBlock(b) ==
    LET S == b.pp + KF_R
    IN  [pp |-> MulDiv(b.pp, KF_R, S),
         pv |-> MulDiv(b.pv, KF_R, S),
         vv |-> b.vv - MulDiv(b.pv, b.pv, S)]

\* kf.update(z): x + K (z - H x), K = P H' / S
KfUpdate(kf, z) ==
    LET y1 == z[1] - kf.x[1]
        y2 == z[2] - kf.x[3]
        S1 == kf.P[1].pp + KF_R
        S2 == kf.P[2].pp + KF_R
    IN  [x |-> <<kf.x[1] + MulDiv(y1, kf.P[1].pp, S1),
                 kf.x[2] + MulDiv(y1, kf.P[1].pv, S1),
                 kf.x[3] + MulDiv(y2, kf.P[2].pp, S2),
                 kf.x[4] + MulDiv(y2, kf.P[2].pv, S2)>>,
         P |-> <<UpdateBlock(kf.P[1]), UpdateBlock(kf.P[2])>>]

\* dts = time_sec.diff().fillna(0).values, at 0-based index i (seconds)
Dts(table, i) ==
    IF i = 0 THEN 0
    ELSE Div(table[i + 1].droneTime_MS - table[i].droneTime_MS, 1000)

\* The guard with the first sample filtered as well
FiltersEverySample(i) == i >= 0

\* if i > 0: the samples that run predict and update
FiltersSample(i) == i > 0

\* dt of the loop at 0-based index i
StepDt(table, i) == Dts(table, i)

\* The loop of run from 0-based index i on: [lat, lon, calls], the smoothed
\* positions appended and the calls made on the filter
RECURSIVE KalmanLoop(_, _, _, _)
KalmanLoop(table, i, kf, acc) ==
    IF i >= Len(table) THEN acc
    ELSE LET dt == StepDt(table, i)
             z == <<table[i + 1].GPS_Latitude, table[i + 1].GPS_Longitude>>
             kf2 == IF FiltersSample(i) THEN KfUpdate(KfPredict(kf, dt), z) ELSE kf
             calls == IF FiltersSample(i)
                      THEN <<[op |-> "predict", sample |-> i, dt |-> dt],
                             [op |-> "update", sample |-> i, dt |-> dt]>>
                      ELSE <<>>
         IN  KalmanLoop(table, i + 1, kf2,
                        [lat |-> Append(acc.lat, kf2.x[1]),
                         lon |-> Append(acc.lon, kf2.x[3]),
                         calls |-> acc.calls \o calls])

\* kalman_smoother.run raises: df.iloc[0] of an empty table
SmoothRaises(table) == table = <<>>

\* The smoothed positions and the calls of a run over a table of at least one row
Smoothed(table) ==
    KalmanLoop(table, 0, KfSeed(table[1]), [lat |-> <<>>, lon |-> <<>>, calls |-> <<>>])

\* The raw columns kept under the smoothed ones dropped
SmoothTableNoRaw(table) ==
    LET sm == Smoothed(table)
    IN  [i \in 1 .. Len(table) |->
            [table[i] EXCEPT !.GPS_Latitude = sm.lat[i], !.GPS_Longitude = sm.lon[i]]]

\* The table kalman_smoother.run writes
SmoothTable(table) ==
    LET sm == Smoothed(table)
    IN  [i \in 1 .. Len(table) |->
            [GPS_Latitude_Raw |-> table[i].GPS_Latitude,
             GPS_Longitude_Raw |-> table[i].GPS_Longitude]
            @@ [table[i] EXCEPT !.GPS_Latitude = sm.lat[i], !.GPS_Longitude = sm.lon[i]]]

-----------------------------------------------------------------------------
(* georeference_images.py: math helpers *)

H_FOV == 82000           \* h_fov=82.0 degrees, the default of run
ClipMargin == 573        \* 0.01 rad, the margin of np.clip around +-pi/2
MetersPerDeg == 111132   \* metres per degree of latitude
ForcedAspect == <<4, 3>> \* FORCED_ASPECT = 4.0 / 3.0, as numerator and denominator
NoAspect == <<>>         \* force_aspect=None

\* np.linspace(a, b, n)[i]
Linspace(a, b, n, i) == IF n = 1 THEN a ELSE a + Div(i * (b - a), n - 1)

\* a[k] of a numpy axis of length n: a negative k counts from the end
Idx(k, n) == IF k < 0 THEN n + k ELSE k

\* np.meshgrid(x_ang, y_ang) for the half angles hx and hy: [xv, yv]
Meshgrid(w, h, hx, hy) ==
    [xv |-> [i \in 0 .. h - 1 |-> [j \in 0 .. w - 1 |-> Linspace(-hx, hx, w, j)]],
     yv |-> [i \in 0 .. h - 1 |-> [j \in 0 .. w - 1 |-> Linspace(hy, -hy, h, i)]]]

\* v_fov_deg = h_fov_deg / aspect, aspect as <<numerator, denominator>>
VFov(h_fov_deg, aspect) == Div(h_fov_deg * aspect[2], aspect[1])

\* calculate_fov_angles: [xv, yv], the meshgrid of the column angles x_ang and the
\* row angles y_ang
calculate_fov_angles(w, h, h_fov_deg, force_aspect) ==
    Meshgrid(w, h, Div(h_fov_deg, 2),
             Div(VFov(h_fov_deg, IF force_aspect # NoAspect THEN force_aspect ELSE <<w, h>>), 2))

\* dx = x * s + y * c, dy = x * c - y * s
Rotate(x, y, s, c) == <<Div(x * s + y * c, 1000), Div(x * c - y * s, 1000)>>

\* rotate_coords: <<dx, dy>> for the local displacement (x, y), in cm
rotate_coords(x, y, yaw_deg) == Rotate(x, y, SinS(yaw_deg), CosS(yaw_deg))

\* np.clip(a, lo, hi)
Clip(a, lo, hi) == IF a < lo THEN lo ELSE IF a > hi THEN hi ELSE a

\* The clip with a margin of 0.1 rad (5730 mdeg) instead of 0.01 rad
ClampedNadirAngleWideMargin(a) == Clip(a, -90000 + 5730, 90000 - 5730)

\* np.clip(ang_y_nadir, -np.pi/2 + 0.01, np.pi/2 - 0.01), in mdeg
ClampedNadirAngle(a) == Clip(a, -90000 + ClipMargin, 90000 - ClipMargin)

\* ang_y_nadir of project_ray for pitch total_p and the pixel's vertical angle yv
AngYNadir(total_p, yv) == ClampedNadirAngle(total_p - yv)

\* dist_y = alt * np.tan(ang_y_nadir), in cm
DistY(alt, ang_y_nadir) == Div(alt * TanS(ang_y_nadir), 10)

\* dist_x = alt * np.tan(ang_x) / np.cos(ang_y_nadir), in cm
DistX(alt, ang_x, ang_y_nadir) == MulDiv(alt * TanS(ang_x), 100, CosS(ang_y_nadir))

\* <<lons, lats>> of the origin displaced by d = <<dx, dy>> cm, in udeg
AddToOrigin(lat_origin, lon_origin, d) ==
    << lon_origin + MulDiv(MulDiv(d[1], 10000, MetersPerDeg), 1000,
                           CosS(Div(lat_origin, 1000))),
       lat_origin + MulDiv(d[2], 10000, MetersPerDeg) >>

\* project_ray at one pixel: <<lon, lat>> in udeg
ProjectPixel(lat_origin, lon_origin, alt, ang_x, ang_y_nadir, total_y) ==
    AddToOrigin(lat_origin, lon_origin,
                rotate_coords(DistX(alt, ang_x, ang_y_nadir), DistY(alt, ang_y_nadir), total_y))

\* The pixels of project_ray for the angles ang = [xv, yv]: [row][column] -> <<lon, lat>>
PixelField(lat_origin, lon_origin, alt, total_r, total_p, total_y, w, h, ang) ==
    [i \in 0 .. h - 1 |-> [j \in 0 .. w - 1 |->
        ProjectPixel(lat_origin, lon_origin, alt, ang.xv[i][j] + total_r,
                     AngYNadir(total_p, ang.yv[i][j]), total_y)]]

\* return lons, lats
SplitField(field, w, h) ==
    [lons |-> [i \in 0 .. h - 1 |-> [j \in 0 .. w - 1 |-> field[i][j][1]]],
     lats |-> [i \in 0 .. h - 1 |-> [j \in 0 .. w - 1 |-> field[i][j][2]]]]

\* project_ray: [lons, lats], each indexed [row][column]
project_ray(lat_origin, lon_origin, alt, total_r, total_p, total_y, w, h, fov, force_aspect) ==
    SplitField(PixelField(lat_origin, lon_origin, alt, total_r, total_p, total_y, w, h,
                          calculate_fov_angles(w, h, fov, force_aspect)),
               w, h)

-----------------------------------------------------------------------------
(* georeference_images.py: the body of the loop of run *)

\* t_pitch with the platform pitch added
PlatformPitch(row, cp) == cp + row.ATT_Pitch

\* t_pitch = cam_pitch
EffectivePitch(row, cp) == cp

\* t_roll = 0.0
EffectiveRoll(row) == 0

\* t_yaw = (row['ATT_Yaw'] + cam_yaw) % 360
EffectiveYaw(row, cy) == (row.ATT_Yaw + cy) % 360000

\* The ground field of one image: the call of project_ray in run
ProjectImage(row, w, h, cp, cy) ==
    project_ray(row.GPS_Latitude, row.GPS_Longitude, row.GPS_Altitude,
                EffectiveRoll(row), EffectivePitch(row, cp), EffectiveYaw(row, cy),
                w, h, H_FOV, ForcedAspect)

\* The corners and the centre read from the field g = [lons, lats], and the
\* dictionary appended to verification_rows
CornersRow(row, g, w, h) ==
    [filename |-> row.filename,
     MRK_Lat |-> row.GPS_Latitude, MRK_Lon |-> row.GPS_Longitude,
     Center_Lat |-> g.lats[h \div 2][w \div 2], Center_Lon |-> g.lons[h \div 2][w \div 2],
     TL_Lat |-> g.lats[0][0], TL_Lon |-> g.lons[0][0],
     TR_Lat |-> g.lats[0][Idx(-1, w)], TR_Lon |-> g.lons[0][Idx(-1, w)],
     BL_Lat |-> g.lats[Idx(-1, h)][0], BL_Lon |-> g.lons[Idx(-1, h)][0],
     BR_Lat |-> g.lats[Idx(-1, h)][Idx(-1, w)], BR_Lon |-> g.lons[Idx(-1, h)][Idx(-1, w)]]

\* The row of verification_rows for one image
VerificationRow(row, w, h, cp, cy) == CornersRow(row, ProjectImage(row, w, h, cp, cy), w, h)

\* gdal.GCP(x, y, z, pixel, line); pixel and line in half pixels (0.5 is 1)
GCP(x, y, z, pixel2, line2) ==
    [GCPX |-> x, GCPY |-> y, GCPZ |-> z, GCPPixel2 |-> pixel2, GCPLine2 |-> line2]

\* gcps with the anchors on the pixel edges instead of the pixel centres
BuildGCPsEdges(v, w, h) ==
    << GCP(v.TL_Lon, v.TL_Lat, 0, 0, 0),
       GCP(v.TR_Lon, v.TR_Lat, 0, 2 * w, 0),
       GCP(v.BL_Lon, v.BL_Lat, 0, 0, 2 * h),
       GCP(v.BR_Lon, v.BR_Lat, 0, 2 * w, 2 * h) >>

\* gcps = [...]: the four control points of an image of w x h pixels
BuildGCPs(v, w, h) ==
    << GCP(v.TL_Lon, v.TL_Lat, 0, 1, 1),
       GCP(v.TR_Lon, v.TR_Lat, 0, 2 * w - 1, 1),
       GCP(v.BL_Lon, v.BL_Lat, 0, 1, 2 * h - 1),
       GCP(v.BR_Lon, v.BR_Lat, 0, 2 * w - 1, 2 * h - 1) >>

\* The exception classes the except clause catches, restricted to RuntimeError
CatchesRuntimeErrorOnly(exc) == exc = "RuntimeError"

\* except Exception as e: every exception of the try block is caught
ExceptCatches(exc) == TRUE

\* print(f"Failed {fname}: {e}")
FailedLine(fname) == [msg |-> "Failed", filename |-> fname]

\* A line printed about no image in particular
Line(text) == [msg |-> text, filename |-> 0]

\* df.sort_values('filename'): insertion of one row into a sorted table
RECURSIVE InsertByFilename(_, _)
InsertByFilename(sorted, row) ==
    IF sorted = <<>> THEN <<row>>
    ELSE IF row.filename < Head(sorted).filename THEN <<row>> \o sorted
    ELSE <<Head(sorted)>> \o InsertByFilename(Tail(sorted), row)

\* df.sort_values('filename')
RECURSIVE SortByFilename(_)
SortByFilename(table) ==
    IF table = <<>> THEN <<>>
    ELSE InsertByFilename(SortByFilename(Tail(table)), Head(table))

\* A loop body that appends the verification row only after Translate/Warp
\* returned: what the body would be with the append moved to the end of the try block
TryBlockAppendsAfterWarp(status, raises) ==
    CASE status = "unreadable" -> [exc |-> "AttributeError", projected |-> FALSE, tif |-> FALSE]
      [] status = "rectfail" -> [exc |-> IF raises THEN "RuntimeError" ELSE "",
                                 projected |-> FALSE, tif |-> FALSE]
      [] OTHER -> [exc |-> "", projected |-> TRUE, tif |-> TRUE]

\* What the try block does for an image file in the given state: the exception it
\* raises ("" for none), whether the row was appended, whether the GeoTIFF was made.
\* gdal.Open of an unreadable file returns None and ds.RasterXSize raises
\* AttributeError; a failing Translate/Warp raises RuntimeError when GDAL's
\* exceptions are enabled (raises) and returns None otherwise.
TryBlock(status, raises) ==
    CASE status = "unreadable" -> [exc |-> "AttributeError", projected |-> FALSE, tif |-> FALSE]
      [] status = "rectfail" -> [exc |-> IF raises THEN "RuntimeError" ELSE "",
                                 projected |-> TRUE, tif |-> FALSE]
      [] OTHER -> [exc |-> "", projected |-> TRUE, tif |-> TRUE]

-----------------------------------------------------------------------------
(* analysis_report.py *)

IMG_W == 1600             \* image width used for the GSD
EarthRadius == 6371000    \* metres, in haversine
GsdLimit == 20            \* 'Valid' if gsd_cm < 20

\* haversine(lon1, lat1, lon2, lat2) in cm, for points given in udeg.  The points
\* are at most a few hundred metres apart, where sin and asin of the half angles
\* are the angles themselves at this resolution; pi is 355/113.
\* 4 * a of haversine for the differences dlat, dlon (udeg) and the cosines c1, c2
HavA4(dlat, dlon, c1, c2) == dlat * dlat + MulDiv(dlon * dlon, c1 * c2, 1000000)

haversine(lon1, lat1, lon2, lat2) ==
    MulDiv(Sqrt(16 * HavA4(lat2 - lat1, lon2 - lon1,
                           CosS(Div(lat1, 1000)), CosS(Div(lat2, 1000)))) * 355,
           EarthRadius, 813600000)

\* The dictionary appended to results for a footprint of the given width and height
ResultRow(fname, width, height) ==
    [filename |-> fname,
     Footprint_Width_m |-> width,
     Footprint_Height_m |-> height,
     Coverage_Area_m2 |-> MulDiv(width, height, 100),
     GSD_cm_px |-> RDiv(width * 100, IMG_W),
     Status |-> IF width * 100 < GsdLimit * 100 * IMG_W THEN "Valid" ELSE "Distorted"]

\* One row of results in analyze_geometry; lengths in cm (metres rounded to 2
\* places), the area in 0.01 m2, the GSD in 0.01 cm
QualityRow(row) ==
    ResultRow(row.filename,
              haversine(row.TL_Lon, row.TL_Lat, row.TR_Lon, row.TR_Lat),
              haversine(row.TL_Lon, row.TL_Lat, row.BL_Lon, row.BL_Lat))

\* res_df of analyze_geometry for the rows of verification_corners.csv
QualityTable(corners) == [i \in 1 .. Len(corners) |-> QualityRow(corners[i])]

RECURSIVE SumGsd(_)
SumGsd(table) ==
    IF table = <<>> THEN 0 ELSE Head(table).GSD_cm_px + SumGsd(Tail(table))

\* The run-level figures analyze_geometry prints
GeometryReport(table) == [avg_gsd |-> RDiv(SumGsd(table), Len(table))]

\* Table_3_1_Velocity.csv: the metadata rows with Time_s, dt and Velocity_ms
\* (here ms, ms and cm/s; "nan" where dt is 0)
VelocityTable(table) ==
    [i \in 1 .. Len(table) |->
        LET dt == IF i = 1 THEN 0 ELSE table[i].droneTime_MS - table[i - 1].droneTime_MS
            d == IF i = 1 THEN 0
                 ELSE haversine(table[i - 1].GPS_Longitude, table[i - 1].GPS_Latitude,
                                table[i].GPS_Longitude, table[i].GPS_Latitude)
        IN  [Time_s |-> table[i].droneTime_MS,
             dt |-> dt,
             Velocity_ms |-> IF dt = 0 THEN <<"nan">> ELSE <<MulDiv(d, 1000, dt)>>]
            @@ table[i]]

\* Table_3_2_Shift.csv
ShiftTable(table) ==
    [i \in 1 .. Len(table) |->
        [filename |-> table[i].filename,
         Positional_Shift_m |->
            haversine(table[i].GPS_Longitude_Raw, table[i].GPS_Latitude_Raw,
                      table[i].GPS_Longitude, table[i].GPS_Latitude)]]

-----------------------------------------------------------------------------
(* The stages of main() *)

\* 2. Clean: process_metadata.run(meta_path, clean_path)
Clean ==
    /\ pc = "clean"
    /\ IF CleanRaises(metaRaw)
       THEN /\ pc' = "raised"
            /\ UNCHANGED <<metaClean, log>>
       ELSE /\ pc' = "smooth"
            /\ metaClean' = CleanTable(metaRaw)
            /\ log' = Append(log, Line("Cleaned metadata saved."))
    /\ UNCHANGED <<images, cam_pitch, cam_yaw, metaRaw, metaKalman, kfCalls, gi, visited,
                   verRows, gcpsOut, tifs, verFile, velTable, shiftTable, qualTable, report>>

\* 3. Kalman refinement: kalman_smoother.run(clean_path, kalman_path)
Smooth ==
    /\ pc = "smooth"
    /\ IF SmoothRaises(metaClean)
       THEN /\ pc' = "raised"
            /\ UNCHANGED <<metaKalman, kfCalls, log>>
       ELSE /\ pc' = "georef"
            /\ metaKalman' = SmoothTable(metaClean)
            /\ kfCalls' = Smoothed(metaClean).calls
            /\ log' = Append(log, Line("Trajectory refined."))
    /\ UNCHANGED <<images, cam_pitch, cam_yaw, metaRaw, metaClean, gi, visited,
                   verRows, gcpsOut, tifs, verFile, velTable, shiftTable, qualTable, report>>

\* 4. Georeference: one iteration of the loop of georeference_images.run
GeorefStep ==
    /\ pc = "georef"
    /\ gi < Len(metaKalman)
    /\ \E raises \in BOOLEAN :
        LET row == SortByFilename(metaKalman)[gi + 1]
            fname == row.filename
            img == images[fname]
            exists == img.status # "deleted"
            t == TryBlock(img.status, raises)
            v == VerificationRow(row, img.w, img.h, cam_pitch, cam_yaw)
        IN  /\ visited' = Append(visited, fname)
            /\ verRows' = IF exists /\ t.projected THEN Append(verRows, v) ELSE verRows
            /\ gcpsOut' = IF exists /\ t.projected
                          THEN (fname :> BuildGCPs(v, img.w, img.h)) @@ gcpsOut
                          ELSE gcpsOut
            /\ tifs' = IF exists /\ t.tif THEN tifs \cup {fname} ELSE tifs
            /\ log' = IF exists /\ t.exc # "" /\ ExceptCatches(t.exc)
                      THEN Append(log, FailedLine(fname))
                      ELSE log
            /\ IF exists /\ t.exc # "" /\ ~ExceptCatches(t.exc)
               THEN pc' = "raised" /\ gi' = gi
               ELSE pc' = pc /\ gi' = gi + 1
    /\ UNCHANGED <<images, cam_pitch, cam_yaw, metaRaw, metaClean, metaKalman, kfCalls,
                   verFile, velTable, shiftTable, qualTable, report>>

\* The end of georeference_images.run: the verification table is written if it has rows
GeorefFinish ==
    /\ pc = "georef"
    /\ gi = Len(metaKalman)
    /\ verFile' = IF verRows # <<>> THEN verRows ELSE verFile
    /\ log' = Append(log, Line("GeoTIFFs saved"))
    /\ pc' = "mosaic"
    /\ UNCHANGED <<images, cam_pitch, cam_yaw, metaRaw, metaClean, metaKalman, kfCalls, gi,
                   visited, verRows, gcpsOut, tifs, velTable, shiftTable, qualTable, report>>

\* 5. Mosaic
Mosaic ==
    /\ pc = "mosaic"
    /\ log' = Append(log, Line(IF tifs # {} THEN "Success! Mosaic" ELSE "No TIFFs found."))
    /\ pc' = "report"
    /\ UNCHANGED <<images, cam_pitch, cam_yaw, metaRaw, metaClean, metaKalman, kfCalls, gi,
                   visited, verRows, gcpsOut, tifs, verFile, velTable, shiftTable,
                   qualTable, report>>

\* 6. Report: analysis_report.run(kalman_path, OUT_DIR), with analyze_geometry
Report ==
    /\ pc = "report"
    /\ velTable' = VelocityTable(metaKalman)
    /\ shiftTable' = ShiftTable(metaKalman)
    /\ IF verFile = NoFile
       THEN /\ log' = log \o <<Line("Warning: Corner verification file not found."),
                               Line("All Reports Generated.")>>
            /\ UNCHANGED <<qualTable, report>>
       ELSE /\ qualTable' = QualityTable(verFile)
            /\ report' = <<GeometryReport(QualityTable(verFile))>>
            /\ log' = log \o <<Line("Geometric Report Generated"),
                               Line("All Reports Generated.")>>
    /\ pc' = "done"
    /\ UNCHANGED <<images, cam_pitch, cam_yaw, metaRaw, metaClean, metaKalman, kfCalls, gi,
                   visited, verRows, gcpsOut, tifs, verFile>>

-----------------------------------------------------------------------------
(* The pipeline run of main() *)

CAMERA_PITCH == -35000   \* CAMERA_PITCH = -35.0
CAMERA_YAW == 90000      \* CAMERA_YAW = 90.0

ImageStates == {"ok", "rectfail", "unreadable", "deleted"}

AltitudeKinds == {"num", "suffixed", "text"}

\* The i-th record smart_merge writes, for the image file named f
RawRow(f, i, kind) ==
    [filename |-> f,
     GPSLatitude |-> 10000000 + 150 * i,
     GPSLongitude |-> 20000000 + 100 * i * i,
     GPSAltitude |-> [kind |-> kind, n |-> 40 + 10 * i],
     ATT_Pitch |-> 2000 * i, ATT_Roll |-> -1000 * i, ATT_Yaw |-> 30000 * (i - 1),
     droneTime_MS |-> 1000 * (i - 1)]

\* verification_corners.csv as an earlier run over another image left it
StaleVerFile ==
    <<VerificationRow([filename |-> 9, GPS_Latitude |-> 10000000, GPS_Longitude |-> 20000000,
                       GPS_Altitude |-> 50, ATT_Pitch |-> 0, ATT_Roll |-> 0, ATT_Yaw |-> 0],
                      2, 2, CAMERA_PITCH, CAMERA_YAW)>>

\* main() after smart_merge has written meta_raw.csv: up to MaxRows records in
\* ascending or descending filename order, each image file in any state, each
\* altitude cell of any kind; the output directory empty or holding the
\* verification table of an earlier run
Init ==
    /\ pc = "clean"
    /\ cam_pitch = CAMERA_PITCH
    /\ cam_yaw = CAMERA_YAW
    /\ \E n \in 0 .. MaxRows :
        \E st \in [1 .. n -> ImageStates], ak \in [1 .. n -> AltitudeKinds], desc \in BOOLEAN :
            /\ (n < 2 => ~desc)
            /\ metaRaw = [i \in 1 .. n |-> RawRow(IF desc THEN n + 1 - i ELSE i, i, ak[i])]
            /\ images = [f \in 1 .. n |-> [status |-> st[f], w |-> MaxDim, h |-> 2]]
    /\ verFile \in {NoFile, StaleVerFile}
    /\ metaClean = NoFile
    /\ metaKalman = NoFile
    /\ kfCalls = <<>>
    /\ gi = 0
    /\ visited = <<>>
    /\ verRows = <<>>
    /\ gcpsOut = <<>>
    /\ tifs = {}
    /\ log = <<>>
    /\ velTable = NoFile
    /\ shiftTable = NoFile
    /\ qualTable = NoFile
    /\ report = <<>>

Next == Clean \/ Smooth \/ GeorefStep \/ GeorefFinish \/ Mosaic \/ Report

Spec == Init /\ [][Next]_vars

-----------------------------------------------------------------------------
(* kalman_smoother.run on its own, over trajectories of up to MaxSamples rows *)

RECURSIVE TimeOf(_, _)
TimeOf(d, i) == IF i = 0 THEN 5000 ELSE d[i] + TimeOf(d, i - 1)

SmootherInit ==
    /\ pc = "smooth"
    /\ cam_pitch = CAMERA_PITCH
    /\ cam_yaw = CAMERA_YAW
    /\ \E n \in 0 .. MaxSamples :
        \E la \in [1 .. n -> {10000000, 10000120}], lo \in [1 .. n -> {20000000, 19999950}],
           d \in [1 .. n -> {0, 1000, 2000}] :
            /\ (n > 0 => d[1] = 0)
            /\ metaClean = [i \in 1 .. n |->
                   [filename |-> i, GPS_Latitude |-> la[i], GPS_Longitude |-> lo[i],
                    GPS_Altitude |-> 50, ATT_Pitch |-> 0, ATT_Roll |-> 0, ATT_Yaw |-> 0,
                    droneTime_MS |-> TimeOf(d, i)]]
    /\ metaRaw = <<>>
    /\ images = <<>>
    /\ verFile = NoFile
    /\ metaKalman = NoFile
    /\ kfCalls = <<>>
    /\ gi = 0
    /\ visited = <<>>
    /\ verRows = <<>>
    /\ gcpsOut = <<>>
    /\ tifs = {}
    /\ log = <<>>
    /\ velTable = NoFile
    /\ shiftTable = NoFile
    /\ qualTable = NoFile
    /\ report = <<>>

SmootherSpec == SmootherInit /\ [][Smooth]_vars

-----------------------------------------------------------------------------
(* georeference_images.run on its own, over one image: every pose, image size *)
(* and camera mount of the sets below                                          *)

MountPitches == {-35000, -90000, 0, 120000}

MountYaws == {0, 90000}

PlatformPitches == {0, 7000}

PlatformRolls == {0, -4000}

ProjectorInit ==
    /\ pc = "georef"
    /\ cam_pitch \in MountPitches
    /\ cam_yaw \in MountYaws
    /\ \E lat \in {10000000, 48000000}, alt \in {60}, yaw \in {0, 300000},
          ap \in PlatformPitches, ar \in PlatformRolls :
            metaKalman = <<[filename |-> 1, GPS_Latitude |-> lat, GPS_Longitude |-> 20000000,
                            GPS_Altitude |-> alt, ATT_Pitch |-> ap, ATT_Roll |-> ar,
                            ATT_Yaw |-> yaw, droneTime_MS |-> 0]>>
    /\ \E w \in 2 .. MaxDim, h \in 2 .. MaxDim, st \in {"ok", "rectfail"} :
            images = <<[status |-> st, w |-> w, h |-> h]>>
    /\ metaRaw = <<>>
    /\ metaClean = NoFile
    /\ verFile = NoFile
    /\ kfCalls = <<>>
    /\ gi = 0
    /\ visited = <<>>
    /\ verRows = <<>>
    /\ gcpsOut = <<>>
    /\ tifs = {}
    /\ log = <<>>
    /\ velTable = NoFile
    /\ shiftTable = NoFile
    /\ qualTable = NoFile
    /\ report = <<>>

ProjectorNext == GeorefStep \/ GeorefFinish

ProjectorSpec == ProjectorInit /\ [][ProjectorNext]_vars

-----------------------------------------------------------------------------
(* Properties *)

Filenames(table) == {table[k].filename : k \in 1 .. Len(table)}

\* The sorted table the georeferencing loop iterates over
LoopTable == SortByFilename(metaKalman)

AfterGeoref == pc \in {"mosaic", "report", "done"}

\* C1: no error raised while opening, projecting or rectifying one image aborts
\* the georeferencing run: the run never ends in an exception once the loop has
\* started, the loop visits the rows in sorted order whichever images fail, and
\* at its end every image has been visited and the verification table written
\* holds a row for every image that succeeded.
C1_ImageErrorsNeverAbortTheLoop ==
    /\ pc = "raised" => metaKalman = NoFile
    /\ metaKalman # NoFile =>
          /\ Len(visited) = gi
          /\ gi <= Len(metaKalman)
          /\ \A i \in 1 .. gi : visited[i] = LoopTable[i].filename
    /\ AfterGeoref =>
          /\ gi = Len(metaKalman)
          /\ \A f \in DOMAIN images : images[f].status = "ok" => f \in Filenames(verFile)
          /\ verRows # <<>> => verFile = verRows

\* C1 witness: the run is over, an image failed to open or to rectify, and an
\* image after it in the loop has its row in the verification table
C1_Witness ==
    /\ pc = "done"
    /\ \E i, j \in 1 .. Len(visited) :
          /\ i < j
          /\ images[visited[i]].status \in {"unreadable", "rectfail"}
          /\ images[visited[j]].status = "ok"
          /\ visited[j] \in Filenames(verFile)

\* C2: when the run is over, every image whose file is missing or cannot be
\* opened has a logged warning and no row in the verification table, the
\* geometric-quality table, the velocity table or the shift table.
C2_UnreadableImageLoggedAndExcluded ==
    pc = "done" =>
        \A f \in DOMAIN images :
            images[f].status \in {"deleted", "unreadable"} =>
                /\ \E k \in 1 .. Len(log) : log[k] = FailedLine(f)
                /\ f \notin Filenames(verFile)
                /\ f \notin Filenames(qualTable)
                /\ f \notin Filenames(velTable)
                /\ f \notin Filenames(shiftTable)

\* C3: a pose row whose altitude is no number never makes the pipeline raise, and
\* when the run is over that row is not in the verification table while every
\* other row has been cleaned, smoothed, visited by the georeferencing loop and
\* reported.
C3_BadAltitudeRowExcludedWithoutRaising ==
    \A i \in 1 .. Len(metaRaw) :
        metaRaw[i].GPSAltitude.kind = "text" =>
            /\ pc # "raised"
            /\ pc = "done" =>
                  /\ metaRaw[i].filename \notin Filenames(verFile)
                  /\ \A j \in 1 .. Len(metaRaw) :
                        j # i /\ metaRaw[j].GPSAltitude.kind # "text" =>
                            /\ metaRaw[j].filename \in Filenames(metaClean)
                            /\ metaRaw[j].filename \in Filenames(metaKalman)
                            /\ \E k \in 1 .. Len(visited) : visited[k] = metaRaw[j].filename
                            /\ metaRaw[j].filename \in Filenames(velTable)

\* The vertical pixel angle of row i of an image of h rows, as run projects it
RowAngle(w, h, i) == calculate_fov_angles(w, h, H_FOV, ForcedAspect).yv[i][0]

\* The mount pitch cp puts the angle from nadir of some pixel row at or beyond
\* +-90 degrees
BeyondHorizon(cp, w, h) == \E i \in 0 .. h - 1 : Abs(cp - RowAngle(w, h, i)) >= 90000

\* The metadata row of the image named f
RowOf(f) == CHOOSE r \in {metaKalman[k] : k \in 1 .. Len(metaKalman)} : r.filename = f

\* C4 as stated: an image whose mount pitch puts a pixel's angle from nadir beyond
\* +-90 degrees yields a failure and no footprint: no verification row and no
\* control points.
C4_RejectsPitchBeyondHorizon ==
    \A k \in 1 .. Len(visited) :
        BeyondHorizon(cam_pitch, images[visited[k]].w, images[visited[k]].h) =>
            /\ visited[k] \notin Filenames(verRows)
            /\ visited[k] \notin DOMAIN gcpsOut

\* An angle held to within 0.01 rad (573 mdeg) of +-90 degrees
HeldAngle(a) == IF a > 89427 THEN 89427 ELSE IF a < -89427 THEN -89427 ELSE a

\* The ground point of pixel (i, j) with its angle from nadir held by HeldAngle
HeldPixel(row, w, h, i, j) ==
    ProjectPixel(row.GPS_Latitude, row.GPS_Longitude, row.GPS_Altitude,
                 calculate_fov_angles(w, h, H_FOV, ForcedAspect).xv[i][j],
                 HeldAngle(cam_pitch - RowAngle(w, h, i)),
                 (row.ATT_Yaw + cam_yaw) % 360000)

\* C4 amended: every image that is opened, also one whose mount pitch puts a
\* pixel's angle from nadir beyond +-90 degrees, gets a footprint and never a
\* failure: its corners are the ground points of the corner pixels with the angle
\* from nadir clamped to +-(pi/2 - 0.01) rad.
C4_ClampsAndEmitsFootprint ==
    \A k \in 1 .. Len(visited) :
        images[visited[k]].status \in {"ok", "rectfail"} =>
            \E n \in 1 .. Len(verRows) :
                LET v == verRows[n]
                    w == images[visited[k]].w
                    h == images[visited[k]].h
                IN  /\ v.filename = visited[k]
                    /\ <<v.TL_Lon, v.TL_Lat>> = HeldPixel(RowOf(visited[k]), w, h, 0, 0)
                    /\ <<v.TR_Lon, v.TR_Lat>> = HeldPixel(RowOf(visited[k]), w, h, 0, w - 1)
                    /\ <<v.BL_Lon, v.BL_Lat>> = HeldPixel(RowOf(visited[k]), w, h, h - 1, 0)
                    /\ <<v.BR_Lon, v.BR_Lat>> = HeldPixel(RowOf(visited[k]), w, h, h - 1, w - 1)

\* C4 witness: a footprint was emitted for an image with a pixel row beyond +-90
\* degrees from nadir
C4_Witness ==
    \E n \in 1 .. Len(verRows) :
        BeyondHorizon(cam_pitch, images[verRows[n].filename].w, images[verRows[n].filename].h)

\* C5: the smoother writes as many rows as it read, in the same order; row i keeps
\* the input position under GPS_Latitude_Raw / GPS_Longitude_Raw, carries the
\* smoothed position under GPS_Latitude / GPS_Longitude, and every other column
\* of row i is unchanged.
C5_SmootherKeepsRowsAndRawValues ==
    metaKalman # NoFile =>
        /\ Len(metaKalman) = Len(metaClean)
        /\ \A i \in 1 .. Len(metaClean) :
              /\ DOMAIN metaKalman[i]
                    = DOMAIN metaClean[i] \cup {"GPS_Latitude_Raw", "GPS_Longitude_Raw"}
              /\ metaKalman[i].GPS_Latitude_Raw = metaClean[i].GPS_Latitude
              /\ metaKalman[i].GPS_Longitude_Raw = metaClean[i].GPS_Longitude
              /\ metaKalman[i].GPS_Latitude = Smoothed(metaClean).lat[i]
              /\ metaKalman[i].GPS_Longitude = Smoothed(metaClean).lon[i]
              /\ \A c \in DOMAIN metaClean[i] \ {"GPS_Latitude", "GPS_Longitude"} :
                    metaKalman[i][c] = metaClean[i][c]

\* C5 witness: a trajectory of several rows was smoothed and a smoothed position
\* differs from the raw one kept beside it
C5_Witness ==
    /\ Len(metaKalman) >= 2
    /\ \E i \in 1 .. Len(metaKalman) :
          metaKalman[i].GPS_Latitude # metaKalman[i].GPS_Latitude_Raw

\* C6: the first sample runs no predict/update, so its smoothed position is its raw
\* position (a single row comes back unsmoothed); every later sample runs predict
\* then update exactly once, in input order, with dt the time from the previous
\* sample.
C6_FirstSampleSeedsThenOneCyclePerSample ==
    metaKalman # NoFile =>
        /\ metaKalman[1].GPS_Latitude = metaClean[1].GPS_Latitude
        /\ metaKalman[1].GPS_Longitude = metaClean[1].GPS_Longitude
        /\ Len(kfCalls) = 2 * (Len(metaClean) - 1)
        /\ \A k \in 1 .. Len(metaClean) - 1 :
              LET dt == Div(metaClean[k + 1].droneTime_MS - metaClean[k].droneTime_MS, 1000)
              IN  /\ kfCalls[2 * k - 1] = [op |-> "predict", sample |-> k, dt |-> dt]
                  /\ kfCalls[2 * k] = [op |-> "update", sample |-> k, dt |-> dt]

\* C6 witness: a trajectory of at least three rows with two different time steps
\* was smoothed
C6_Witness ==
    /\ Len(metaKalman) >= 3
    /\ Len(kfCalls) >= 4
    /\ kfCalls[1].dt # kfCalls[3].dt

\* C7: every projected image of w x h pixels gets exactly four control points of
\* elevation 0 that pair the ground points of the field at (0,0), (0,w-1),
\* (h-1,0), (h-1,w-1) with the pixel anchors (0.5,0.5), (w-0.5,0.5), (0.5,h-0.5),
\* (w-0.5,h-0.5) (anchors in half pixels).
C7_FourControlPointsAtPixelCentres ==
    \A n \in 1 .. Len(verRows) :
        LET f == verRows[n].filename
            w == images[f].w
            h == images[f].h
            g == ProjectImage(RowOf(f), w, h, cam_pitch, cam_yaw)
        IN  /\ f \in DOMAIN gcpsOut
            /\ Len(gcpsOut[f]) = 4
            /\ gcpsOut[f][1] = [GCPX |-> g.lons[0][0], GCPY |-> g.lats[0][0], GCPZ |-> 0,
                                GCPPixel2 |-> 1, GCPLine2 |-> 1]
            /\ gcpsOut[f][2] = [GCPX |-> g.lons[0][w - 1], GCPY |-> g.lats[0][w - 1], GCPZ |-> 0,
                                GCPPixel2 |-> 2 * w - 1, GCPLine2 |-> 1]
            /\ gcpsOut[f][3] = [GCPX |-> g.lons[h - 1][0], GCPY |-> g.lats[h - 1][0], GCPZ |-> 0,
                                GCPPixel2 |-> 1, GCPLine2 |-> 2 * h - 1]
            /\ gcpsOut[f][4] = [GCPX |-> g.lons[h - 1][w - 1], GCPY |-> g.lats[h - 1][w - 1],
                                GCPZ |-> 0,
                                GCPPixel2 |-> 2 * w - 1, GCPLine2 |-> 2 * h - 1]

\* C7 witness: control points were built for an image that is not square
C7_Witness ==
    \E f \in DOMAIN gcpsOut : images[f].w # images[f].h /\ Len(gcpsOut[f]) = 4

\* C8: the footprint does not depend on the platform's pitch or roll: the row
\* emitted for a pose is the row of every pose that differs from it only in
\* ATT_Pitch and ATT_Roll.
C8_FootprintIgnoresPlatformPitchAndRoll ==
    \A n \in 1 .. Len(verRows) :
        \A ap \in PlatformPitches, ar \in PlatformRolls :
            LET f == verRows[n].filename
            IN  VerificationRow([RowOf(f) EXCEPT !.ATT_Pitch = ap, !.ATT_Roll = ar],
                                images[f].w, images[f].h, cam_pitch, cam_yaw) = verRows[n]

\* C8 witness: a footprint was emitted for a platform that was pitched and rolled
C8_Witness ==
    \E n \in 1 .. Len(verRows) :
        /\ RowOf(verRows[n].filename).ATT_Pitch # 0
        /\ RowOf(verRows[n].filename).ATT_Roll # 0

\* C9: every row of the geometric-quality table holds the offset between the
\* platform position and the image centre (haversine) beside the width, height,
\* area and GSD, and the run-level report holds the mean offset beside the mean GSD.
C9_QualityRowsCarryTheOffset ==
    qualTable # NoFile =>
        /\ \A k \in 1 .. Len(qualTable) :
              /\ {"Footprint_Width_m", "Footprint_Height_m", "Coverage_Area_m2", "GSD_cm_px",
                  "MRK_to_Center_Offset_m"} \subseteq DOMAIN qualTable[k]
              /\ qualTable[k].MRK_to_Center_Offset_m
                    = haversine(verFile[k].MRK_Lon, verFile[k].MRK_Lat,
                                verFile[k].Center_Lon, verFile[k].Center_Lat)
        /\ \A k \in 1 .. Len(report) : {"avg_gsd", "avg_offset"} \subseteq DOMAIN report[k]

\* C10: with platform roll 0, platform yaw 0, camera yaw offset 0 and camera pitch
\* -90 degrees the footprint is horizontally symmetric within 2 udeg:
\* TL_lon - center_lon = -(TR_lon - center_lon), TL_lat = TR_lat, BL_lat = BR_lat.
C10_NadirFootprintIsSymmetric ==
    \A n \in 1 .. Len(verRows) :
        LET v == verRows[n]
            row == RowOf(v.filename)
        IN  cam_pitch = -90000 /\ cam_yaw = 0 /\ row.ATT_Yaw = 0 /\ row.ATT_Roll = 0 =>
                /\ Abs((v.TL_Lon - v.Center_Lon) + (v.TR_Lon - v.Center_Lon)) <= 2
                /\ Abs(v.TL_Lat - v.TR_Lat) <= 2
                /\ Abs(v.BL_Lat - v.BR_Lat) <= 2

\* The images of the run that were opened and projected
Projected == {f \in DOMAIN images : images[f].status \in {"ok", "rectfail"}}

VisitedSet == {visited[k] : k \in 1 .. Len(visited)}

\* C11: when no image of the run produced a footprint, the finished run has
\* logged the Verifier's warning, has no geometric-quality table and no
\* run-level quality figures, and did not end in an exception.
C11_EmptyVerifierInputWarnsAndWritesNoTable ==
    /\ pc = "done" /\ verRows = <<>> =>
          /\ \E k \in 1 .. Len(log) :
                log[k] = Line("Warning: Corner verification file not found.")
          /\ qualTable = NoFile
          /\ report = <<>>
    /\ pc = "raised" => metaKalman = NoFile

\* C12: an image of the run has a row in the verification table the run builds
\* if and only if it was opened and projected: every visited image has a row
\* exactly when it is readable, no other image has one, a GeoTIFF exists only
\* for images with a row, and the table is written as built.  An image whose
\* rectification failed keeps its row in the table written, has no GeoTIFF and
\* has a row in the Verifier's quality table.
C12_RowIffProjectedEvenIfRectificationFails ==
    /\ \A f \in DOMAIN images :
          f \in Filenames(verRows) <=> (f \in VisitedSet /\ f \in Projected)
    /\ tifs \subseteq Filenames(verRows)
    /\ AfterGeoref =>
          /\ Filenames(verRows) = Projected
          /\ verRows # <<>> => verFile = verRows
    /\ pc = "done" =>
          \A f \in DOMAIN images :
              images[f].status = "rectfail" =>
                  f \notin tifs /\ f \in Filenames(verFile) /\ f \in Filenames(qualTable)

\* C12 witness: the run is over; an image whose rectification failed has no
\* GeoTIFF but has its row in the quality table, and an image that could not
\* be opened has none
C12_Witness ==
    /\ pc = "done"
    /\ \E f, g \in DOMAIN images :
          /\ images[f].status = "rectfail"
          /\ f \notin tifs
          /\ f \in Filenames(qualTable)
          /\ images[g].status \in {"unreadable", "deleted"}
          /\ g \notin Filenames(qualTable)

=============================================================================
